---- MODULE Spec2Model ----
(***************************************************************************)
(* A model of cloud_lite: the AWS cost monitor (aws_monitor.py) and the    *)
(* GPT report composer (ai_analyzer.py).                                   *)
(*                                                                         *)
(* Four specifications share the module:                                   *)
(*   Spec         the polling loop of main                                 *)
(*   SpecDetect   detect_anomaly as a pure function of its arguments       *)
(*   SpecPrompt   build_prompt on a list of cost rows                      *)
(*   SpecExtract  the response-text extraction of analyze_cost_with_gpt    *)
(*                                                                         *)
(* Python floats are modelled as exact numbers: a cost is an integer       *)
(* number of units, a quotient is a reduced fraction <<num, den>> with     *)
(* den > 0.  A call's outcome is a record whose field exc names the        *)
(* exception that left the call ("None" when it returned).                 *)
(***************************************************************************)
EXTENDS Integers, Sequences, FiniteSets

VARIABLES
    \* ---- main (aws_monitor.py)
    start_date,   \* the query's first day, computed once before the loop
    end_date,     \* the query's end (exclusive), computed once before the loop
    today,        \* the calendar day of the wall clock
    prev_cost,    \* NoCost, or the total carried from an earlier cycle
    prev_day,     \* the calendar day prev_cost is the total of (history)
    cycles,       \* one entry per finished loop iteration (history)
    last,         \* what the latest loop iteration did
    crashed,      \* the exception that ended main, "None" while it runs
    \* ---- detect_anomaly called on its own
    da_args,      \* [cost_today, cost_yesterday, threshold]
    da_ret,       \* Pending, or the outcome of the call
    \* ---- build_prompt
    cost_rows,    \* the caller's list of records
    prompt,       \* Pending, or the outcome of build_prompt(cost_rows)
    perm_rows,    \* the list handed to the second call
    prompt2,      \* Pending, or the outcome of build_prompt(perm_rows)
    \* ---- analyze_cost_with_gpt, after responses.create returned
    response,     \* the response object
    report        \* Pending, or the outcome of the extraction and wrapping

vars == <<start_date, end_date, today, prev_cost, prev_day, cycles, last, crashed,
          da_args, da_ret, cost_rows, prompt, perm_rows, prompt2, response, report>>

mainVars == <<start_date, end_date, today, prev_cost, prev_day, cycles, last, crashed>>
detectVars == <<da_args, da_ret>>
promptVars == <<cost_rows, prompt, perm_rows, prompt2>>
extractVars == <<response, report>>

\* A variable of a component the running specification does not exercise.
Idle == "idle"
\* A call that has not been made yet; once made, its outcome r is held as <<r>>.
Pending == <<>>
Returned(r) == <<r>>

(***************************************************************************)
(* Bounds of the model.                                                    *)
(***************************************************************************)
MaxTotal == 6      \* detect_anomaly's arguments range over -MaxTotal..MaxTotal
MaxGroups == 2     \* service groups in one day of a billing response
MaxCycles == 3     \* loop iterations of main that are explored
MaxRollovers == 2  \* midnights that pass while main runs
MaxRows == 2       \* records in build_prompt's input
MaxItems == 2      \* output items of a response
MaxFrags == 2      \* content fragments of one output item

(***************************************************************************)
(* Float arithmetic, exact.                                                *)
(***************************************************************************)
Abs(x) == IF x < 0 THEN -x ELSE x

RECURSIVE GCD(_, _)
GCD(a, b) == IF b = 0 THEN a ELSE GCD(b, a % b)

\* The fraction n/d (d # 0), reduced, with a positive denominator.
Rat(n, d) ==
    LET g == GCD(Abs(n), Abs(d))
        s == IF d < 0 THEN -1 ELSE 1
    IN  <<(s * n) \div g, (s * d) \div g>>

\* Python's a / b on numbers: a fraction, or ZeroDivisionError.
TrueDiv(a, b) ==
    IF b = 0 THEN [exc |-> "ZeroDivisionError", val |-> <<0, 1>>]
    ELSE [exc |-> "None", val |-> Rat(a, b)]

\* p >= q on fractions with positive denominators.
RatGE(p, q) == p[1] * q[2] >= q[1] * p[2]

(***************************************************************************)
(* aws_monitor.py                                                          *)
(***************************************************************************)
\* A threshold of 2.0.
Threshold_doubled == <<2, 1>>

\* threshold=1.5, the default of detect_anomaly and the value main passes.
Threshold == <<3, 2>>

\* detect_anomaly without the test of cost_yesterday == 0.
detect_anomaly_unguarded(cost_today, cost_yesterday, threshold) ==
    LET q == TrueDiv(cost_today, cost_yesterday)
    IN  IF q.exc # "None" THEN [exc |-> q.exc, ret |-> FALSE]
        ELSE [exc |-> "None", ret |-> RatGE(q.val, threshold)]

\* detect_anomaly with > in place of >=.
detect_anomaly_strict(cost_today, cost_yesterday, threshold) ==
    IF cost_yesterday = 0 THEN [exc |-> "None", ret |-> FALSE]
    ELSE LET q == TrueDiv(cost_today, cost_yesterday)
         IN  [exc |-> q.exc, ret |-> q.exc = "None" /\ ~RatGE(threshold, q.val)]

\* def detect_anomaly(cost_today, cost_yesterday, threshold=1.5) -> bool
detect_anomaly(cost_today, cost_yesterday, threshold) ==
    IF cost_yesterday = 0 THEN [exc |-> "None", ret |-> FALSE]
    ELSE LET q == TrueDiv(cost_today, cost_yesterday)
         IN  IF q.exc # "None" THEN [exc |-> q.exc, ret |-> FALSE]
             ELSE [exc |-> "None", ret |-> RatGE(q.val, threshold)]

\* Python's None and a present value, for the fields that may hold either.
None == <<>>
Some(v) == <<v>>

RECURSIVE SumSeq(_)
SumSeq(s) == IF s = <<>> THEN 0 ELSE s[1] + SumSeq(Tail(s))

\* fetch_cost returning None: get_cost_and_usage raised ClientError.
NoResponse == [ok |-> FALSE, ResultsByTime |-> <<>>]

\* The UnblendedCost amounts a service group may carry.
Amounts == {0, 1, 2}

GroupLists == UNION {[1..n -> Amounts] : n \in 0..MaxGroups}

\* What get_cost_and_usage returns for TimePeriod [start, end) at DAILY
\* granularity: no result, or the one day of the period with its service groups.
Responses(start, end) ==
    {[ok |-> TRUE, ResultsByTime |-> <<>>]}
    \cup {[ok |-> TRUE, ResultsByTime |-> <<[Start |-> d, Groups |-> g]>>] :
            d \in start..(end - 1), g \in GroupLists}

calculate_total_cost(resp) ==
    LET results == resp.ResultsByTime
    IN  IF results = <<>> THEN 0 ELSE SumSeq(results[1].Groups)

\* The calendar day calculate_total_cost's result is the total of.
total_day(resp) ==
    IF resp.ResultsByTime = <<>> THEN None ELSE Some(resp.ResultsByTime[1].Start)

\* Line 129 with the update skipped in a cycle that alerted.
carry_unless_alerted(prev, today_total, alerted) ==
    IF alerted THEN prev ELSE Some(today_total)

\* prev_cost = today_total, the last statement of `if resp:`.
carry(prev, today_total, alerted) == Some(today_total)

NoTest == [tested |-> FALSE, cost_today |-> 0, cost_yesterday |-> 0,
           alerted |-> FALSE, increase |-> <<0, 1>>]

\* One iteration of `while True`, from fetch_cost's result to the assignment of
\* prev_cost: the new prev_cost, what was compared, whether send_alert ran, and
\* the exception that left main, if any.
main_iteration(prev, resp) ==
    IF ~resp.ok
    THEN [prev_cost |-> prev, fetched |-> FALSE, today_total |-> None,
          test |-> NoTest, exc |-> "None"]
    ELSE
      LET today_total == calculate_total_cost(resp)
          base == [prev_cost |-> prev, fetched |-> TRUE,
                   today_total |-> Some(today_total), test |-> NoTest, exc |-> "None"]
      IN  IF prev = None
          THEN [base EXCEPT !.prev_cost = carry(prev, today_total, FALSE)]
          ELSE
            LET d == detect_anomaly(today_total, prev[1], Threshold)
                t == [NoTest EXCEPT !.tested = TRUE, !.cost_today = today_total,
                                    !.cost_yesterday = prev[1]]
            IN  IF d.exc # "None" THEN [base EXCEPT !.test = t, !.exc = d.exc]
                ELSE IF ~d.ret
                THEN [base EXCEPT !.test = t,
                                  !.prev_cost = carry(prev, today_total, FALSE)]
                ELSE
                  LET increase == TrueDiv(today_total, prev[1])
                  IN  IF increase.exc # "None"
                      THEN [base EXCEPT !.test = t, !.exc = increase.exc]
                      ELSE [base EXCEPT
                              !.test = [t EXCEPT !.alerted = TRUE,
                                                 !.increase = increase.val],
                              !.prev_cost = carry(prev, today_total, TRUE)]

\* time.sleep(interval_minutes * 60): midnight may pass while main sleeps.
Sleep(midnight) ==
    today' = IF midnight /\ today < end_date + MaxRollovers THEN today + 1 ELSE today

Iterate(resp, midnight) ==
    LET c == main_iteration(prev_cost, resp)
    IN  /\ crashed = "None"
        /\ Len(cycles) < MaxCycles
        /\ prev_cost' = c.prev_cost
        /\ crashed' = c.exc
        /\ last' = [fetched |-> c.fetched, today_total |-> c.today_total,
                    test |-> c.test,
                    day_today |-> IF c.test.tested THEN total_day(resp) ELSE None,
                    day_yesterday |-> IF c.test.tested THEN prev_day ELSE None,
                    had_prev |-> prev_cost # None]
        /\ prev_day' = IF c.fetched /\ c.exc = "None" THEN total_day(resp) ELSE prev_day
        /\ cycles' = Append(cycles, [ok |-> resp.ok, total |-> c.today_total])
        /\ Sleep(midnight)
        /\ UNCHANGED <<start_date, end_date>>

\* A loop iteration whose fetch_cost returned a response.
CycleFetched ==
    /\ \E resp \in Responses(start_date, end_date), midnight \in BOOLEAN :
          Iterate(resp, midnight)
    /\ UNCHANGED <<detectVars, promptVars, extractVars>>

\* A loop iteration whose fetch_cost caught ClientError and returned None.
CycleFailed ==
    /\ \E midnight \in BOOLEAN : Iterate(NoResponse, midnight)
    /\ UNCHANGED <<detectVars, promptVars, extractVars>>

\* main up to the first iteration: the dates are computed once, prev_cost = None.
Init ==
    /\ today = 1
    /\ end_date = today
    /\ start_date = today - 1
    /\ prev_cost = None
    /\ prev_day = None
    /\ cycles = <<>>
    /\ last = [fetched |-> FALSE, today_total |-> None, test |-> NoTest,
               day_today |-> None, day_yesterday |-> None, had_prev |-> FALSE]
    /\ crashed = "None"
    /\ da_args = Idle /\ da_ret = Idle
    /\ cost_rows = Idle /\ prompt = Idle /\ perm_rows = Idle /\ prompt2 = Idle
    /\ response = Idle /\ report = Idle

Next == CycleFetched \/ CycleFailed

Spec == Init /\ [][Next]_vars

(***************************************************************************)
(* detect_anomaly on its own.                                              *)
(***************************************************************************)
Totals == (0 - MaxTotal)..MaxTotal

Thresholds == {Threshold, <<1, 1>>, <<2, 1>>, <<1, 2>>, <<0, 1>>}

InitDetect ==
    /\ da_args \in [cost_today : Totals, cost_yesterday : Totals, threshold : Thresholds]
    /\ da_ret = Pending
    /\ start_date = Idle /\ end_date = Idle /\ today = Idle /\ prev_cost = Idle
    /\ prev_day = Idle /\ cycles = Idle /\ last = Idle /\ crashed = Idle
    /\ cost_rows = Idle /\ prompt = Idle /\ perm_rows = Idle /\ prompt2 = Idle
    /\ response = Idle /\ report = Idle

CallDetect ==
    /\ da_ret = Pending
    /\ da_ret' = Returned(detect_anomaly(da_args.cost_today, da_args.cost_yesterday,
                                         da_args.threshold))
    /\ UNCHANGED <<da_args, mainVars, promptVars, extractVars>>

NextDetect == CallDetect

SpecDetect == InitDetect /\ [][NextDetect]_vars

(***************************************************************************)
(* ai_analyzer.py: build_prompt                                            *)
(*                                                                         *)
(* A Python value is a pair <<type, n>>.  A date is a missing key          *)
(* <<"absent", 0>>, None <<"None", 0>>, or a string <<"str", k>>, where k  *)
(* is the string's rank in lexicographic order and the empty string has    *)
(* rank 0.  A cost is a missing key, None, a number <<"float", k>>, a      *)
(* string that float() parses to k <<"numstr", k>>, or a string float()    *)
(* rejects <<"badstr", 0>>.                                                *)
(***************************************************************************)
Dates == {<<"absent", 0>>, <<"None", 0>>, <<"str", 1>>, <<"str", 2>>}

Services == {1, 2}

Costs == {<<"absent", 0>>, <<"None", 0>>, <<"float", 1>>, <<"float", 3>>,
          <<"numstr", 2>>, <<"badstr", 0>>}

Rows == [date : Dates, service : Services, cost : Costs]

RowLists == UNION {[1..n -> Rows] : n \in 0..MaxRows}

\* r.get("date", ""): the sort key.
date_key(r) == IF r.date[1] = "absent" THEN <<"str", 0>> ELSE r.date

\* r.get("cost"): a missing key reads as None.
get_cost(r) == IF r.cost[1] = "absent" THEN <<"None", 0>> ELSE r.cost

\* sorted() raises TypeError as soon as it compares a key that is not a string:
\* with two rows or more every key is compared at least once, and None is not
\* ordered even against None.
sort_raises(rows) ==
    Len(rows) >= 2 /\ \E i \in 1..Len(rows) : date_key(rows[i])[1] # "str"

\* r goes behind every row whose key is not greater: equal keys keep their order.
RECURSIVE insert_stable(_, _)
insert_stable(done, r) ==
    IF done = <<>> THEN <<r>>
    ELSE IF date_key(done[Len(done)])[2] <= date_key(r)[2] THEN Append(done, r)
    ELSE Append(insert_stable(SubSeq(done, 1, Len(done) - 1), r), done[Len(done)])

RECURSIVE sort_from(_, _)
sort_from(done, rest) ==
    IF rest = <<>> THEN done ELSE sort_from(insert_stable(done, rest[1]), Tail(rest))

\* The rows left as they came.
sorted_not(rows) == rows

\* sorted(cost_rows, key=lambda r: r.get("date", "")) on string keys.
sorted(rows) == sort_from(<<>>, rows)

\* try: sorted(...) except Exception: list(cost_rows)
rows_sorted(rows) == IF sort_raises(rows) THEN rows ELSE sorted(rows)

\* float(x) of a cost that is not None.
float(c) ==
    IF c[1] = "badstr" THEN [exc |-> "ValueError", val |-> 0]
    ELSE [exc |-> "None", val |-> c[2]]

\* The rows the comprehension keeps: r.get("cost") is not None.
kept(rows) == SelectSeq(rows, LAMBDA r : get_cost(r)[1] # "None")

\* The floor of the square root of n >= 0.
ISqrt(n) == CHOOSE k \in 0..n : k * k <= n /\ (k + 1) * (k + 1) > n

\* math.sqrt of a fraction: its root when that is a fraction, else the radicand
\* kept under the root sign.
Sqrt(q) ==
    LET a == ISqrt(q[1])
        b == ISqrt(q[2])
    IN  IF a * a = q[1] /\ b * b = q[2] THEN [exact |-> TRUE, val |-> <<a, b>>]
        ELSE [exact |-> FALSE, val |-> q]

Zero == [exact |-> TRUE, val |-> <<0, 1>>]

RECURSIVE SumSquares(_)
SumSquares(xs) == IF xs = <<>> THEN 0 ELSE xs[1] * xs[1] + SumSquares(Tail(xs))

\* statistics.mean
mean(xs) == Rat(SumSeq(xs), Len(xs))

\* statistics.stdev, the sample deviation: the divisor is n - 1.
stdev_sample(xs) ==
    LET n == Len(xs)
        sx == SumSeq(xs)
    IN  Sqrt(Rat(n * SumSquares(xs) - sx * sx, n * (n - 1)))

\* statistics.pstdev: sqrt((sxx - sx * sx / n) / n), in exact arithmetic.
pstdev(xs) ==
    LET n == Len(xs)
        sx == SumSeq(xs)
    IN  Sqrt(Rat(n * SumSquares(xs) - sx * sx, n * n))

summary_stats(xs) ==
    IF xs # <<>>
    THEN [count |-> Len(xs), total |-> SumSeq(xs), mean |-> mean(xs),
          stdev |-> IF Len(xs) > 1 THEN pstdev(xs) ELSE Zero]
    ELSE [count |-> 0, total |-> 0, mean |-> <<0, 1>>, stdev |-> Zero]

\* json.dumps of one row, as tokens <<text, n>>; a key the row lacks is not written.
dumps_row(r) ==
    <<<<"{", 0>>>>
    \o (IF r.date[1] = "absent" THEN <<>> ELSE <<<<"date", 0>>, r.date>>)
    \o <<<<"service", 0>>, <<"str", r.service>>>>
    \o (IF r.cost[1] = "absent" THEN <<>> ELSE <<<<"cost", 0>>, r.cost>>)
    \o <<<<"}", 0>>>>

RECURSIVE dumps(_)
dumps(rows) == IF rows = <<>> THEN <<>> ELSE dumps_row(rows[1]) \o dumps(Tail(rows))

\* build_prompt: the two parts of the prompt that depend on the input (the JSON
\* of the rows and the statistics), or the exception that left it.
build_prompt(rows) ==
    LET rs == rows_sorted(rows)
        ks == kept(rs)
    IN  IF \E i \in 1..Len(ks) : float(ks[i].cost).exc # "None"
        THEN [exc |-> "ValueError", rows_json |-> <<>>, stats |-> summary_stats(<<>>)]
        ELSE [exc |-> "None", rows_json |-> dumps(rs),
              stats |-> summary_stats([i \in 1..Len(ks) |-> float(ks[i].cost).val])]

\* The lists that hold the rows of `rows`, each as often, in any order.
Permutations(rows) ==
    LET n == Len(rows)
    IN  {[i \in 1..n |-> rows[f[i]]] :
            f \in {g \in [1..n -> 1..n] : \A i, j \in 1..n : i # j => g[i] # g[j]}}

InitPrompt ==
    /\ cost_rows \in RowLists
    /\ prompt = Pending
    /\ perm_rows = <<>>
    /\ prompt2 = Pending
    /\ start_date = Idle /\ end_date = Idle /\ today = Idle /\ prev_cost = Idle
    /\ prev_day = Idle /\ cycles = Idle /\ last = Idle /\ crashed = Idle
    /\ da_args = Idle /\ da_ret = Idle
    /\ response = Idle /\ report = Idle

\* The first call, on the caller's list.
Build ==
    /\ prompt = Pending
    /\ prompt' = Returned(build_prompt(cost_rows))
    /\ UNCHANGED <<cost_rows, perm_rows, prompt2, mainVars, detectVars, extractVars>>

\* A second call, on the same rows in some order (the same order included).
BuildAgain ==
    /\ prompt # Pending
    /\ prompt2 = Pending
    /\ \E p \in Permutations(cost_rows) :
          /\ perm_rows' = p
          /\ prompt2' = Returned(build_prompt(p))
    /\ UNCHANGED <<cost_rows, prompt, mainVars, detectVars, extractVars>>

NextPrompt == Build \/ BuildAgain

SpecPrompt == InitPrompt /\ [][NextPrompt]_vars

(***************************************************************************)
(* ai_analyzer.py: analyze_cost_with_gpt, from the response to the report  *)
(*                                                                         *)
(* A string is the sequence of its characters.  A Python value is a record *)
(* [t, s]: None, a string with its characters s, the integer 0 ("zero"),   *)
(* a non-zero integer ("int"), or an object of some other class.           *)
(***************************************************************************)
PyNone == [t |-> "None", s |-> <<>>]
PyStr(s) == [t |-> "str", s |-> s]
PyInt == [t |-> "int", s |-> <<>>]
PyZero == [t |-> "zero", s |-> <<>>]
PyObject == [t |-> "object", s |-> <<>>]

\* bool(v)
truthy(v) == v.t \in {"int", "object"} \/ (v.t = "str" /\ v.s # <<>>)

Texts == {<<>>, <<" ">>, <<"a">>, <<"b">>}

Whitespace == {" ", "\n"}

RECURSIVE lstrip(_)
lstrip(s) == IF s # <<>> /\ s[1] \in Whitespace THEN lstrip(Tail(s)) ELSE s

RECURSIVE rstrip(_)
rstrip(s) ==
    IF s # <<>> /\ s[Len(s)] \in Whitespace THEN rstrip(SubSeq(s, 1, Len(s) - 1)) ELSE s

\* str.strip()
strip(s) == rstrip(lstrip(s))

\* "\n".join(parts): TypeError when a part is not a string.
RECURSIVE join(_)
join(parts) ==
    IF \E i \in 1..Len(parts) : parts[i].t # "str"
    THEN [exc |-> "TypeError", val |-> <<>>]
    ELSE IF Len(parts) = 0 THEN [exc |-> "None", val |-> <<>>]
    ELSE IF Len(parts) = 1 THEN [exc |-> "None", val |-> parts[1].s]
    ELSE [exc |-> "None", val |-> parts[1].s \o <<"\n">> \o join(Tail(parts)).val]

\* A content fragment: a dict (with or without a "text" key), a string, or
\* another object.
Fragments ==
    {[t |-> "dict", has_text |-> FALSE, text |-> PyNone]}
    \cup {[t |-> "dict", has_text |-> TRUE, text |-> v] :
            v \in {PyStr(<<>>), PyStr(<<"a">>), PyStr(<<"b">>), PyInt}}
    \cup {[t |-> "str", has_text |-> FALSE, text |-> PyStr(x)] : x \in {<<" ">>, <<"a">>}}
    \cup {[t |-> "object", has_text |-> FALSE, text |-> PyNone]}

FragmentLists == UNION {[1..n -> Fragments] : n \in 0..MaxFrags}

\* An output item: a dict whose "content" is missing, None or a list of
\* fragments, or an object without a get method.
Items ==
    {[t |-> "object", content |-> "missing", frags |-> <<>>],
     [t |-> "dict", content |-> "missing", frags |-> <<>>],
     [t |-> "dict", content |-> "None", frags |-> <<>>]}
    \cup {[t |-> "dict", content |-> "list", frags |-> f] : f \in FragmentLists}

ItemLists == UNION {[1..n -> Items] : n \in 0..MaxItems}

\* getattr(response, "output", None): None, a list of items, or something that
\* is no list.
Outputs ==
    {[t |-> "None", items |-> <<>>], [t |-> "other", items |-> <<>>]}
    \cup {[t |-> "list", items |-> l] : l \in ItemLists}

\* A response: whether it has the attribute output_text and its value, and output.
ResponseObjects ==
    {[has_output_text |-> FALSE, output_text |-> PyNone, output |-> o] : o \in Outputs}
    \cup {[has_output_text |-> TRUE, output_text |-> v, output |-> o] :
            v \in {PyNone, PyInt, PyZero} \cup {PyStr(x) : x \in Texts}, o \in Outputs}

\* str(response): the object's representation, which is not empty.
str(resp) == PyStr(<<"<Response>">>)

\* The inner loop's effect on parts for one fragment c.
parts_of_fragment(c) ==
    IF c.t = "dict" /\ c.has_text /\ truthy(c.text) THEN <<c.text>>
    ELSE IF c.t = "str" THEN <<c.text>>
    ELSE <<>>

RECURSIVE parts_of_content(_)
parts_of_content(frags) ==
    IF frags = <<>> THEN <<>>
    ELSE parts_of_fragment(frags[1]) \o parts_of_content(Tail(frags))

\* The loop over the items: the parts collected, or the exception of the first
\* item that has no get method (AttributeError) or whose content is None
\* (TypeError).
RECURSIVE parts_of_items(_)
parts_of_items(items) ==
    IF items = <<>> THEN [exc |-> "None", parts |-> <<>>]
    ELSE IF items[1].t # "dict" THEN [exc |-> "AttributeError", parts |-> <<>>]
    ELSE IF items[1].content = "None" THEN [exc |-> "TypeError", parts |-> <<>>]
    ELSE LET rest == parts_of_items(Tail(items))
         IN  [exc |-> rest.exc,
              parts |-> IF rest.exc # "None" THEN <<>>
                        ELSE parts_of_content(items[1].frags) \o rest.parts]

\* The else branch of `if hasattr(response, "output_text")`: ai_text after the
\* walk over response.output.
walk(resp) ==
    LET out == resp.output
    IN  IF out.t = "list" /\ Len(out.items) > 0
        THEN LET w == parts_of_items(out.items)
             IN  IF w.exc # "None" THEN [exc |-> w.exc, val |-> PyNone]
                 ELSE IF w.parts = <<>> THEN [exc |-> "None", val |-> PyNone]
                 ELSE LET j == join(w.parts)
                      IN  IF j.exc # "None" THEN [exc |-> j.exc, val |-> PyNone]
                          ELSE [exc |-> "None", val |-> PyStr(strip(j.val))]
        ELSE [exc |-> "None", val |-> PyNone]

\* Lines 117-141: ai_text when the try statement is left.
extract_text(resp) ==
    LET got == IF resp.has_output_text
               THEN [exc |-> "None", val |-> resp.output_text]
               ELSE walk(resp)
    IN  IF got.exc # "None" THEN str(resp)
        ELSE IF ~truthy(got.val) THEN str(resp)
        ELSE got.val

header == <<"=== GPT report ===\n">>
footer == <<"\n=== end ===">>

\* Lines 116-146: header + ai_text + footer, TypeError when ai_text is no string.
make_report(resp) ==
    LET ai_text == extract_text(resp)
    IN  IF ai_text.t # "str" THEN [exc |-> "TypeError", text |-> <<>>]
        ELSE [exc |-> "None", text |-> header \o ai_text.s \o footer]

InitExtract ==
    /\ response \in ResponseObjects
    /\ report = Pending
    /\ start_date = Idle /\ end_date = Idle /\ today = Idle /\ prev_cost = Idle
    /\ prev_day = Idle /\ cycles = Idle /\ last = Idle /\ crashed = Idle
    /\ da_args = Idle /\ da_ret = Idle
    /\ cost_rows = Idle /\ prompt = Idle /\ perm_rows = Idle /\ prompt2 = Idle

Extract ==
    /\ report = Pending
    /\ report' = Returned(make_report(response))
    /\ UNCHANGED <<response, mainVars, detectVars, promptVars>>

NextExtract == Extract

SpecExtract == InitExtract /\ [][NextExtract]_vars

(***************************************************************************)
(* Claims about detect_anomaly (SpecDetect).                               *)
(***************************************************************************)

\* C1: with previous == 0 detect_anomaly returns False for every current total
\* and every threshold, and raises nothing.
C1_ZeroBaselineIsNoAnomaly ==
    (da_ret # Pending /\ da_args.cost_yesterday = 0)
        => (da_ret[1].exc = "None" /\ da_ret[1].ret = FALSE)

C1_Witness ==
    /\ da_ret # Pending
    /\ da_args.cost_yesterday = 0
    /\ da_args.cost_today > 0
    /\ da_ret[1] = [exc |-> "None", ret |-> FALSE]

\* C2: with previous > 0 and current >= 0 detect_anomaly returns True exactly
\* when current / previous >= threshold, the boundary included: with threshold
\* n/d that is current * d >= n * previous.
C2_RatioTestInclusive ==
    (da_ret # Pending /\ da_args.cost_yesterday > 0 /\ da_args.cost_today >= 0)
        => /\ da_ret[1].exc = "None"
           /\ da_ret[1].ret =
                (da_args.cost_today * da_args.threshold[2]
                    >= da_args.threshold[1] * da_args.cost_yesterday)

\* The boundary: 150 against 100 at 1.5, in units of 50.
C2_Witness ==
    /\ da_ret # Pending
    /\ da_args = [cost_today |-> 3, cost_yesterday |-> 2, threshold |-> Threshold]
    /\ da_ret[1] = [exc |-> "None", ret |-> TRUE]

(***************************************************************************)
(* Claims about main (Spec).                                               *)
(***************************************************************************)
\* The total of the latest entry of log whose fetch succeeded, None without one.
RECURSIVE LastFetchedTotal(_)
LastFetchedTotal(log) ==
    IF log = <<>> THEN None
    ELSE IF log[Len(log)].ok THEN log[Len(log)].total
    ELSE LastFetchedTotal(SubSeq(log, 1, Len(log) - 1))

\* C8: whenever a cycle evaluates the anomaly test, its two totals are those of
\* two consecutive calendar days, previous the earlier and current the later.
C8_TotalsOfConsecutiveDays ==
    last.test.tested
        => /\ last.day_today # None
           /\ last.day_yesterday # None
           /\ last.day_today[1] = last.day_yesterday[1] + 1

\* C9: after any sequence of cycles prev_cost is the total of the most recent
\* cycle whose fetch succeeded, and None when no fetch has succeeded; main is
\* still running.
C9_PrevCostIsLastFetchedTotal ==
    /\ crashed = "None"
    /\ prev_cost = LastFetchedTotal(cycles)

\* Two fetched cycles, the second alerting, then a failed one.
C9_Witness ==
    /\ Len(cycles) = 3
    /\ cycles[1] = [ok |-> TRUE, total |-> Some(2)]
    /\ cycles[2] = [ok |-> TRUE, total |-> Some(3)]
    /\ ~cycles[3].ok
    /\ prev_cost = Some(3)

\* C10: a cycle alerts exactly when its fetch succeeded, an earlier fetched
\* cycle left a non-zero total, and this cycle's total is at least 1.5 times
\* that total; no cycle ends main with a division by zero.
C10_AlertExactlyOnSpike ==
    cycles # <<>> =>
        LET n == Len(cycles)
            before == LastFetchedTotal(SubSeq(cycles, 1, n - 1))
        IN  /\ crashed = "None"
            /\ last.test.alerted =
                   (/\ cycles[n].ok
                    /\ before # None
                    /\ before[1] # 0
                    /\ 2 * cycles[n].total[1] >= 3 * before[1])
            /\ last.test.alerted => last.test.increase = Rat(cycles[n].total[1], before[1])

C10_Witness ==
    /\ Len(cycles) = 3
    /\ cycles[1] = [ok |-> TRUE, total |-> Some(0)]
    /\ cycles[2] = [ok |-> TRUE, total |-> Some(2)]
    /\ cycles[3] = [ok |-> TRUE, total |-> Some(3)]
    /\ last.test.alerted
    /\ last.test.increase = <<3, 2>>

(***************************************************************************)
(* Claims about build_prompt (SpecPrompt).                                 *)
(***************************************************************************)
\* The rows whose cost is neither a missing key nor None, in input order.
Retained(rows) == SelectSeq(rows, LAMBDA r : r.cost[1] \notin {"absent", "None"})

RECURSIVE SumCost(_)
SumCost(rows) == IF rows = <<>> THEN 0 ELSE rows[1].cost[2] + SumCost(Tail(rows))

\* The sum over the rows of (n * cost - total)^2, which is n^2 times the sum of
\* the squared deviations from the mean total / n.
RECURSIVE ScaledSquaredDeviations(_, _, _)
ScaledSquaredDeviations(rows, n, total) ==
    IF rows = <<>> THEN 0
    ELSE (n * rows[1].cost[2] - total) * (n * rows[1].cost[2] - total)
         + ScaledSquaredDeviations(Tail(rows), n, total)

\* The reference statistics over the retained rows.
ReferenceStats(rows) ==
    LET r == Retained(rows)
        n == Len(r)
        total == SumCost(r)
    IN  IF n = 0 THEN [count |-> 0, total |-> 0, mean |-> <<0, 1>>, stdev |-> Zero]
        ELSE [count |-> n, total |-> total, mean |-> Rat(total, n),
              stdev |-> IF n = 1 THEN Zero
                        ELSE Sqrt(Rat(ScaledSquaredDeviations(r, n, total), n * n * n))]

Without(rows, i) == SubSeq(rows, 1, i - 1) \o SubSeq(rows, i + 1, Len(rows))

\* C3: the statistics build_prompt embeds are the reference over the rows whose
\* cost is not absent: their number, their sum, sum / number and the population
\* standard deviation, all 0 for no row and deviation 0 for one; a row of
\* absent cost more or less changes nothing.
C3_StatsOverRetainedRows ==
    (prompt # Pending /\ prompt[1].exc = "None")
        => /\ prompt[1].stats = ReferenceStats(cost_rows)
           /\ \A i \in 1..Len(cost_rows) :
                 cost_rows[i].cost[1] \in {"absent", "None"}
                     => build_prompt(Without(cost_rows, i)).stats = prompt[1].stats

\* Costs 3 and 1: count 2, total 4, mean 2 and population deviation 1 (the
\* sample deviation would be sqrt(2)).
C3_Witness ==
    /\ prompt # Pending
    /\ prompt[1].exc = "None"
    /\ Len(cost_rows) = 2
    /\ cost_rows[1].cost = <<"float", 3>>
    /\ prompt[1].stats = [count |-> 2, total |-> 4, mean |-> <<2, 1>>,
                          stdev |-> [exact |-> TRUE, val |-> <<1, 1>>]]

\* C6 as stated: when sorting succeeds, build_prompt returns the same prompt for
\* the list and for every permutation of it, rows sharing a date included.
C6_SamePromptForEveryPermutation ==
    (prompt # Pending /\ prompt2 # Pending /\ ~sort_raises(cost_rows))
        => prompt2 = prompt

KeysDistinct(rows) ==
    \A i, j \in 1..Len(rows) : i # j => date_key(rows[i]) # date_key(rows[j])

\* C6 amended: when sorting succeeds and no two rows have the same sort key,
\* build_prompt has the same outcome for the list and for every permutation of
\* it; and two calls on the same list have the same outcome.
C6_SamePromptForDistinctDates ==
    (/\ prompt # Pending
     /\ prompt2 # Pending
     /\ \/ ~sort_raises(cost_rows) /\ KeysDistinct(cost_rows)
        \/ perm_rows = cost_rows)
        => prompt2 = prompt

\* Two rows in descending date order, and the second call on them swapped.
C6_Witness ==
    /\ prompt # Pending
    /\ prompt2 # Pending
    /\ Len(cost_rows) >= 2
    /\ cost_rows[1].date = <<"str", 2>>
    /\ cost_rows[2].date = <<"str", 1>>
    /\ perm_rows # cost_rows
    /\ prompt[1].exc = "None"
    /\ prompt2 = prompt

\* C7: build_prompt never raises: rows whose dates cannot be compared stay in
\* input order, and a row whose cost is present but not numeric is left out of
\* the statistics.
C7_BuildPromptNeverRaises ==
    prompt # Pending
        => /\ prompt[1].exc = "None"
           /\ sort_raises(cost_rows) => prompt[1].rows_json = dumps(cost_rows)
           /\ prompt[1].stats.count =
                 Len(SelectSeq(cost_rows,
                               LAMBDA r : r.cost[1] \in {"float", "numstr"}))

(***************************************************************************)
(* Claims about the response-text extraction (SpecExtract).                *)
(***************************************************************************)
\* The text between the header and the footer of a report.
Body(text) == SubSeq(text, Len(header) + 1, Len(text) - Len(footer))

\* C4: for every response the extraction and wrapping completes without
\* raising and the report's body is a non-empty text.
C4_ExtractionNeverRaisesNorEmpty ==
    report # Pending
        => /\ report[1].exc = "None"
           /\ Body(report[1].text) # <<>>

\* The text of source (1), the flat field: empty when it is absent or no text.
FlatText(resp) ==
    IF resp.has_output_text /\ resp.output_text.t = "str" THEN resp.output_text.s
    ELSE <<>>

\* The text of source (2), the walk over the output items: empty when the walk
\* fails or finds nothing.
WalkText(resp) ==
    LET w == walk(resp)
    IN  IF w.exc = "None" /\ w.val.t = "str" THEN w.val.s ELSE <<>>

\* C5: the body is the first non-empty text among the flat field, the walk over
\* the output items and the string representation, in that order.
C5_SourcesTriedInOrder ==
    (report # Pending /\ report[1].exc = "None")
        => Body(report[1].text) =
              IF FlatText(response) # <<>> THEN FlatText(response)
              ELSE IF WalkText(response) # <<>> THEN WalkText(response)
              ELSE str(response).s

====
